---- MODULE Spec2Model ----
(***************************************************************************)
(* State-machine model of the MCP academic server: the expiring cache      *)
(* (SimpleCache), the upstream client (ReyesClient._make_request), and     *)
(* the JSON-RPC dispatchers of the stdio server (server.py) and of the     *)
(* HTTP/WebSocket gateway (remote_server.py).                               *)
(*                                                                         *)
(* Python values are modelled as strings; Python's None is the string      *)
(* "None".  A Python dict is modelled as the sequence of its <<key,value>> *)
(* pairs in insertion order, which is the order str(dict) prints them in.  *)
(* An exception is a record whose field cls names its class.               *)
(***************************************************************************)
EXTENDS Integers, Sequences, FiniteSets, TLC

VARIABLES
    now,      \* datetime.now(), in minutes
    cache,    \* SimpleCache._cache of the client: key -> [value, expires]
    lastSet,  \* history: key -> [value, at, ttl] of the latest set since the last clear
    last,     \* observation of the latest operation (inputs and outcome)
    prev,     \* observation of the operation before it
    nOps,     \* number of operations performed
    client,   \* self.client: 0 for None, n for the n-th client instance created
    proc,     \* the process: "script" (a bare client), "stdio" (server.py) or "remote" (remote_server.py)
    active_connections,  \* ConnectionManager.active_connections: client id -> websocket
    sockCid,  \* websocket -> the client id of its running websocket_endpoint, or None
    threads   \* thread -> where it is in _make_request and what it has read

vars == <<now, cache, lastSet, last, prev, nOps, client, proc, active_connections, sockCid,
          threads>>

None == "None"

\* ReyesConfig.CACHE_EXPIRY_MINUTES
CACHE_EXPIRY_MINUTES == 15

(***************************************************************************)
(* Bounds of the model                                                     *)
(***************************************************************************)
MaxTime == 32       \* the clock stops advancing here
MaxCacheOps == 4    \* steps of a run of the cache alone
MaxClientOps == 3   \* steps of a run of the client

\* minutes the clock may advance in one step: short of, exactly and past the default TTL
Deltas == {1, CACHE_EXPIRY_MINUTES, CACHE_EXPIRY_MINUTES + 1}
\* expiry_minutes arguments of set: the default and an explicit shorter one
TTLChoices == {1, CACHE_EXPIRY_MINUTES}

(***************************************************************************)
(* Inputs                                                                  *)
(***************************************************************************)
\* dicts as insertion-ordered sequences of pairs; None when the argument is omitted
\* (a url is the sequence of the pieces it is formatted from)
ParamsAB == <<<<"start", "0">>, <<"limit", "20">>>>
ParamsBA == <<<<"limit", "20">>, <<"start", "0">>>>
HeadersAB == <<<<"Accept", "json">>, <<"Content-Type", "text/calendar">>>>
HeadersBA == <<<<"Content-Type", "text/calendar">>, <<"Accept", "json">>>>
\* <<url, params, headers>> triples a caller passes to _make_request
RequestArgs == {<<<<"asignaturas">>, ParamsAB, None>>, <<<<"asignaturas">>, ParamsBA, None>>,
                <<<<"horarios">>, None, HeadersAB>>, <<<<"horarios">>, None, HeadersBA>>}
\* decoded response bodies; "None" is the JSON document null
Bodies == {"v1", None}
CacheValues == {"v1", "v2", None}

(***************************************************************************)
(* SimpleCache                                                             *)
(***************************************************************************)
Del(c, key) == [k \in DOMAIN c \ {key} |-> c[k]]

Put(c, key, e) == [k \in DOMAIN c \cup {key} |-> IF k = key THEN e ELSE c[k]]

EmptyCache == [k \in {} |-> None]

SimpleCache_get_keepExpired(c, key, t) ==
    IF key \in DOMAIN c
    THEN IF t < c[key].expires
         THEN [value |-> c[key].value, cache |-> c]
         ELSE [value |-> None, cache |-> c]
    ELSE [value |-> None, cache |-> c]

SimpleCache_get_lateExpiry(c, key, t) ==
    IF key \in DOMAIN c
    THEN IF t <= c[key].expires
         THEN [value |-> c[key].value, cache |-> c]
         ELSE [value |-> None, cache |-> Del(c, key)]
    ELSE [value |-> None, cache |-> c]

\* SimpleCache.get: the value returned and the store it leaves behind
SimpleCache_get(c, key, t) ==
    IF key \in DOMAIN c
    THEN IF t < c[key].expires
         THEN [value |-> c[key].value, cache |-> c]
         ELSE [value |-> None, cache |-> Del(c, key)]
    ELSE [value |-> None, cache |-> c]

SimpleCache_set_keepsExpiry(c, key, value, expiry_minutes, t) ==
    Put(c, key, [value |-> value,
                 expires |-> IF key \in DOMAIN c THEN c[key].expires ELSE t + expiry_minutes])

SimpleCache_set_dropsOthers(c, key, value, expiry_minutes, t) ==
    [k \in {key} |-> [value |-> value, expires |-> t + expiry_minutes]]

\* SimpleCache.set
SimpleCache_set(c, key, value, expiry_minutes, t) ==
    Put(c, key, [value |-> value, expires |-> t + expiry_minutes])

SimpleCache_clear_keepsEntries(c) == c

\* SimpleCache.clear
SimpleCache_clear(c) == EmptyCache

(***************************************************************************)
(* Cache key derivation                                                    *)
(***************************************************************************)
RECURSIVE StrPairs(_)
StrPairs(d) ==
    IF d = <<>> THEN <<>>
    ELSE <<Head(d)[1], ":", Head(d)[2]>> \o
         (IF Len(d) > 1 THEN <<",">> ELSE <<>>) \o StrPairs(Tail(d))

\* str(d) for a dict or None, as a sequence of tokens
Str(d) == IF d = None THEN <<"None">> ELSE <<"{">> \o StrPairs(d) \o <<"}">>

\* f"{url}_{str(params)}_{str(headers)}"
CacheKey(url, params, headers) ==
    url \o <<"_">> \o Str(params) \o <<"_">> \o Str(headers)

\* the key/value pairs of a dict, whatever their order
Items(d) == IF d = None THEN {} ELSE {d[i] : i \in 1..Len(d)}

SameDict(d1, d2) == (d1 = None) = (d2 = None) /\ Items(d1) = Items(d2)

Keys == {CacheKey(a[1], a[2], a[3]) : a \in RequestArgs}

\* keys used when the cache is driven directly
DirectKeys == {CacheKey(<<"asignaturas">>, ParamsAB, None), CacheKey(<<"horarios">>, None, HeadersAB)}

(***************************************************************************)
(* Exceptions                                                              *)
(***************************************************************************)
\* classes deriving from BaseException.  models.APIError derives from
\* pydantic.BaseModel and is not among them.
ExceptionClasses == {"HTTPError", "RequestException", "Exception", "TypeError",
                     "KeyError", "ValueError", "AttributeError"}

APIError(error, message, status_code, endpoint) ==
    [cls |-> "APIError", error |-> error, message |-> message,
     status_code |-> status_code, endpoint |-> endpoint]

PyException(cls, message) == [cls |-> cls, message |-> message]

NoException == [cls |-> None]

\* the raise statement: an operand that is not an exception instance makes
\* the statement itself raise TypeError
Raise(x) ==
    IF x.cls \in ExceptionClasses THEN x
    ELSE PyException("TypeError", <<"exceptions must derive from BaseException">>)

\* hasattr(e, 'error') and hasattr(e, 'message')
HasErrorAndMessage(e) == e.cls = "APIError"

(***************************************************************************)
(* The upstream: what session.get / raise_for_status / decoding do         *)
(***************************************************************************)
UpstreamOutcomes ==
    {[kind |-> "response", status |-> 200, body |-> b, message |-> "OK"] : b \in Bodies}
    \cup {[kind |-> "response", status |-> 203, body |-> "v1", message |-> "Non-Authoritative"],
          [kind |-> "response", status |-> 404, body |-> None, message |-> "Not Found"],
          [kind |-> "RequestException", status |-> 0, body |-> None, message |-> "Connection refused"],
          [kind |-> "Exception", status |-> 0, body |-> None, message |-> "decode failed"]}

\* response.raise_for_status() raises HTTPError
RaisesForStatus(status) == status >= 400

Returned(value, c, calls) ==
    [kind |-> "return", value |-> value, exc |-> NoException, cache |-> c, calls |-> calls]

Raised(exc, c, calls) ==
    [kind |-> "raise", value |-> None, exc |-> exc, cache |-> c, calls |-> calls]

make_request_cachesFailures(c, url, headers, params, use_cache, t, up) ==
    LET cache_key == CacheKey(url, params, headers)
        g == SimpleCache_get(c, cache_key, t)
        c1 == IF use_cache THEN g.cache ELSE c
        failed == SimpleCache_set(c1, cache_key, up.message, CACHE_EXPIRY_MINUTES, t)
    IN  IF use_cache /\ g.value # None
        THEN Returned(g.value, c1, 0)
        ELSE IF up.kind = "response" /\ RaisesForStatus(up.status)
        THEN Raised(Raise(APIError("HTTP_ERROR",
                                   <<"HTTP ", ToString(up.status), ": ", up.message>>,
                                   up.status, url)), failed, 1)
        ELSE IF up.kind = "RequestException"
        THEN Raised(Raise(APIError("REQUEST_ERROR", <<up.message>>, 0, url)), failed, 1)
        ELSE IF up.kind = "Exception"
        THEN Raised(Raise(APIError("UNKNOWN_ERROR", <<up.message>>, 0, url)), failed, 1)
        ELSE Returned(up.body,
                      IF use_cache /\ up.status = 200
                      THEN SimpleCache_set(c1, cache_key, up.body, CACHE_EXPIRY_MINUTES, t)
                      ELSE c1,
                      1)

make_request_ignoresUseCache(c, url, headers, params, use_cache, t, up) ==
    LET cache_key == CacheKey(url, params, headers)
        g == SimpleCache_get(c, cache_key, t)
        c1 == g.cache
    IN  IF g.value # None
        THEN Returned(g.value, c1, 0)
        ELSE IF up.kind = "response" /\ RaisesForStatus(up.status)
        THEN Raised(Raise(APIError("HTTP_ERROR",
                                   <<"HTTP ", ToString(up.status), ": ", up.message>>,
                                   up.status, url)), c1, 1)
        ELSE IF up.kind = "RequestException"
        THEN Raised(Raise(APIError("REQUEST_ERROR", <<up.message>>, 0, url)), c1, 1)
        ELSE IF up.kind = "Exception"
        THEN Raised(Raise(APIError("UNKNOWN_ERROR", <<up.message>>, 0, url)), c1, 1)
        ELSE Returned(up.body,
                      IF up.status = 200
                      THEN SimpleCache_set(c1, cache_key, up.body, CACHE_EXPIRY_MINUTES, t)
                      ELSE c1,
                      1)

\* ReyesClient._make_request: the outcome, the cache it leaves and the number
\* of upstream GETs it issued; up is the upstream's answer if one is asked for
make_request(c, url, headers, params, use_cache, t, up) ==
    LET cache_key == CacheKey(url, params, headers)
        g == SimpleCache_get(c, cache_key, t)
        c1 == IF use_cache THEN g.cache ELSE c
    IN  IF use_cache /\ g.value # None
        THEN Returned(g.value, c1, 0)
        ELSE IF up.kind = "response" /\ RaisesForStatus(up.status)
        THEN Raised(Raise(APIError("HTTP_ERROR",
                                   <<"HTTP ", ToString(up.status), ": ", up.message>>,
                                   up.status, url)), c1, 1)
        ELSE IF up.kind = "RequestException"
        THEN Raised(Raise(APIError("REQUEST_ERROR", <<up.message>>, 0, url)), c1, 1)
        ELSE IF up.kind = "Exception"
        THEN Raised(Raise(APIError("UNKNOWN_ERROR", <<up.message>>, 0, url)), c1, 1)
        ELSE Returned(up.body,
                      IF use_cache /\ up.status = 200
                      THEN SimpleCache_set(c1, cache_key, up.body, CACHE_EXPIRY_MINUTES, t)
                      ELSE c1,
                      1)

(***************************************************************************)
(* State machine                                                           *)
(***************************************************************************)
NoOp == [op |-> "init"]

EmptyDict == [k \in {} |-> None]

\* a client made by create_uji_client(), used directly
Init ==
    /\ now = 0
    /\ cache = EmptyCache
    /\ lastSet = EmptyCache
    /\ last = NoOp
    /\ prev = NoOp
    /\ nOps = 0
    /\ client = 1
    /\ proc = "script"
    /\ active_connections = EmptyDict
    /\ sockCid = EmptyDict
    /\ threads = EmptyDict

server == <<client, proc, active_connections, sockCid, threads>>

\* time passes
Tick(bound) ==
    /\ nOps < bound
    /\ \E d \in Deltas :
         /\ now + d <= MaxTime
         /\ now' = now + d
    /\ nOps' = nOps + 1
    /\ UNCHANGED <<cache, lastSet, last, prev, server>>

\* cache.set(key, value, expiry_minutes)
CacheSet ==
    /\ nOps < MaxCacheOps
    /\ \E key \in DirectKeys, value \in CacheValues, ttl \in TTLChoices :
         /\ cache' = SimpleCache_set(cache, key, value, ttl, now)
         /\ lastSet' = Put(lastSet, key,
                           [value |-> value, at |-> now, ttl |-> ttl,
                            had |-> key \in DOMAIN cache,
                            oldExpires |-> IF key \in DOMAIN cache THEN cache[key].expires
                                           ELSE 0])
         /\ last' = [op |-> "set", key |-> key, value |-> value]
    /\ prev' = last
    /\ nOps' = nOps + 1
    /\ UNCHANGED <<now, server>>

\* cache.get(key)
CacheGet ==
    /\ nOps < MaxCacheOps
    /\ \E key \in DirectKeys :
         LET g == SimpleCache_get(cache, key, now)
         IN  /\ cache' = g.cache
             /\ last' = [op |-> "get", key |-> key, value |-> g.value, at |-> now,
                         evicted |-> key \notin DOMAIN g.cache]
    /\ prev' = last
    /\ nOps' = nOps + 1
    /\ UNCHANGED <<now, lastSet, server>>

\* cache.clear()
CacheClear ==
    /\ nOps < MaxCacheOps
    /\ cache' = SimpleCache_clear(cache)
    /\ lastSet' = EmptyCache
    /\ last' = [op |-> "clear"]
    /\ prev' = last
    /\ nOps' = nOps + 1
    /\ UNCHANGED <<now, server>>

TickCache == Tick(MaxCacheOps)

NextCache == CacheSet \/ CacheGet \/ CacheClear \/ TickCache

SpecCache == Init /\ [][NextCache]_vars

\* the entries a step wrote: those of c2 that c1 does not hold unchanged
Written(c1, c2) == {k \in DOMAIN c2 : k \notin DOMAIN c1 \/ c1[k] # c2[k]}

\* client._make_request(url, headers, params, use_cache)
Request ==
    /\ nOps < MaxClientOps
    /\ \E a \in RequestArgs, use_cache \in BOOLEAN, up \in UpstreamOutcomes :
       \E r \in {make_request(cache, a[1], a[3], a[2], use_cache, now, up)} :
             /\ cache' = r.cache
             /\ lastSet' = [k \in (DOMAIN lastSet \cup Written(cache, r.cache)) |->
                              IF k \in Written(cache, r.cache)
                              THEN [value |-> r.cache[k].value, at |-> now,
                                    ttl |-> r.cache[k].expires - now]
                              ELSE lastSet[k]]
             /\ last' = [op |-> "request", url |-> a[1], params |-> a[2], headers |-> a[3],
                         use_cache |-> use_cache, up |-> up, kind |-> r.kind,
                         value |-> r.value, exc |-> r.exc, calls |-> r.calls,
                         pre |-> cache, at |-> now]
    /\ prev' = last
    /\ nOps' = nOps + 1
    /\ UNCHANGED <<now, server>>

\* client.clear_cache()
ClearCache ==
    /\ nOps < MaxClientOps
    /\ cache' = SimpleCache_clear(cache)
    /\ lastSet' = EmptyCache
    /\ last' = [op |-> "clear_cache"]
    /\ prev' = last
    /\ nOps' = nOps + 1
    /\ UNCHANGED <<now, server>>

TickClient == Tick(MaxClientOps)

NextClient == Request \/ ClearCache \/ TickClient

SpecClient == Init /\ [][NextClient]_vars

(***************************************************************************)
(* Tool dispatch                                                           *)
(***************************************************************************)
\* the names handle_call_tool of server.py dispatches on
StdioTools == {"get_subjects", "get_subject_details", "get_subject_groups",
               "get_subject_subgroups", "search_subjects",
               "get_degrees", "get_degree_details", "search_degrees",
               "get_class_schedule", "get_exam_schedule",
               "get_locations", "get_location_details", "search_locations",
               "clear_cache"}

\* the names the dispatchers of remote_server.py dispatch on
RemoteTools == {"get_subjects", "search_subjects", "get_degrees", "search_degrees",
                "get_locations", "search_locations",
                "get_class_schedule", "get_exam_schedule"}

\* the names handle_list_tools of server.py returns
StdioListedTools == {"get_subjects", "get_subject_details", "get_subject_groups",
                     "get_subject_subgroups", "search_subjects",
                     "get_degrees", "get_degree_details", "search_degrees",
                     "get_class_schedule", "get_exam_schedule",
                     "get_locations", "get_location_details", "search_locations",
                     "clear_cache"}

\* the names handle_list_tools of RemoteMCPServer returns (the WebSocket tools/list)
RemoteListedTools == {"get_subjects", "search_subjects", "get_degrees", "search_degrees",
                      "get_locations", "search_locations",
                      "get_class_schedule", "get_exam_schedule"}

\* the names in the hardcoded tools/list answer of mcp_endpoint
HttpListedTools == {"get_subjects", "search_subjects", "get_degrees", "search_degrees",
                    "get_locations", "search_locations",
                    "get_class_schedule", "get_exam_schedule"}

\* dict.get(k, default)
Get(d, k, default) == IF k \in DOMAIN d THEN d[k] ELSE default

Min_noClamp(a, b) == a

\* min(a, b)
Min(a, b) == IF a <= b THEN a ELSE b

CALENDAR_HEADERS == <<<<"Content-Type", "text/calendar">>>>

\* the upstream call of a client method: _make_request(url, headers, params)
\* and whether the decoded value is then unpacked into a response model
Call(op, url, params, headers, unpack) ==
    [kind |-> "call", op |-> op, url |-> url, params |-> params, headers |-> headers,
     unpack |-> unpack]

MissingKey(k) == [kind |-> "KeyError", key |-> k]

\* client.get_subjects(start, limit, full)
get_subjects(start, limit, full) ==
    Call("get_subjects", <<"asignaturas">>,
         <<<<"start", ToString(start)>>, <<"limit", ToString(limit)>>>>
             \o (IF full THEN <<<<"full", "true">>>> ELSE <<>>),
         None, TRUE)

\* client.get_degrees(full) and client.get_locations(full)
get_listing(op, dataset, full) ==
    Call(op, <<dataset>>, IF full THEN <<<<"full", "true">>>> ELSE <<>>, None, TRUE)

\* client.get_subject_details(id) and the other lookups by id
get_by_id(op, dataset, id, suffix) ==
    Call(op, <<dataset, "/", id>> \o suffix, None, None, TRUE)

\* client.get_class_schedule(year, degree_id), client.get_exam_schedule(year, degree_id)
get_schedule(op, year, degree_id, what) ==
    Call(op, <<year, "/estudio/", degree_id, "/", what>>, None, CALENDAR_HEADERS, FALSE)

\* arguments[k1] (and arguments[k2]) are read before the client is called
Needs(a, ks, plan) ==
    IF \E i \in 1..Len(ks) : ks[i] \notin DOMAIN a
    THEN MissingKey(ks[CHOOSE i \in 1..Len(ks) :
                        ks[i] \notin DOMAIN a /\ \A j \in 1..(i - 1) : ks[j] \in DOMAIN a])
    ELSE plan

\* the branch of the if/elif chain that name selects among the names in
\* tools, and what it does with the arguments a
ToolPlan(name, a, tools) ==
    IF name \notin tools THEN [kind |-> "unknown"]
    ELSE CASE name = "get_subjects" ->
                get_subjects(Get(a, "start", 0), Min(Get(a, "limit", 20), 100),
                             Get(a, "full", FALSE))
           [] name = "get_subject_details" ->
                Needs(a, <<"subject_id">>,
                      get_by_id("get_subject_details", "asignaturas", Get(a, "subject_id", None), <<>>))
           [] name = "get_subject_groups" ->
                Needs(a, <<"subject_id">>,
                      get_by_id("get_subject_groups", "asignaturas", Get(a, "subject_id", None),
                                <<"/grupos">>))
           [] name = "get_subject_subgroups" ->
                Needs(a, <<"subject_id">>,
                      get_by_id("get_subject_subgroups", "asignaturas", Get(a, "subject_id", None),
                                <<"/grupos/subgrupos">>))
           [] name = "search_subjects" ->
                Needs(a, <<"query">>, get_subjects(0, 1000, TRUE))
           [] name = "get_degrees" ->
                get_listing("get_degrees", "estudios", Get(a, "full", TRUE))
           [] name = "get_degree_details" ->
                Needs(a, <<"degree_id">>,
                      get_by_id("get_degree_details", "estudios", Get(a, "degree_id", None), <<>>))
           [] name = "search_degrees" ->
                Needs(a, <<"query">>, get_listing("get_degrees", "estudios", TRUE))
           [] name = "get_class_schedule" ->
                Needs(a, <<"year", "degree_id">>,
                      get_schedule("get_class_schedule", Get(a, "year", None),
                                   Get(a, "degree_id", None), "horarios"))
           [] name = "get_exam_schedule" ->
                Needs(a, <<"year", "degree_id">>,
                      get_schedule("get_exam_schedule", Get(a, "year", None),
                                   Get(a, "degree_id", None), "examenes"))
           [] name = "get_locations" ->
                get_listing("get_locations", "ubicaciones", Get(a, "full", TRUE))
           [] name = "get_location_details" ->
                Needs(a, <<"location_id">>,
                      get_by_id("get_location_details", "ubicaciones", Get(a, "location_id", None), <<>>))
           [] name = "search_locations" ->
                Needs(a, <<"query">>, get_listing("get_locations", "ubicaciones", TRUE))
           [] name = "clear_cache" -> [kind |-> "clear_cache"]

NoUpstream == [kind |-> None, status |-> 0, body |-> None, message |-> None]

RunUnknown_noElseBranch(c) ==
    [kind |-> "raise", value |-> None,
     exc |-> PyException("UnboundLocalError", <<"result_text">>), cache |-> c,
     calls |-> 0, op |-> None, url |-> <<>>, params |-> None, up |-> NoUpstream]

\* the final else branch of the chain: no client method is called
RunUnknown(c) ==
    [kind |-> "unknown", value |-> None, exc |-> NoException, cache |-> c,
     calls |-> 0, op |-> None, url |-> <<>>, params |-> None, up |-> NoUpstream]

\* running the selected branch inside the handler's try block: how it ends,
\* the cache it leaves, the upstream GETs issued and the client method called
RunTool(c, plan, t, up) ==
    CASE plan.kind = "unknown" -> RunUnknown(c)
      [] plan.kind = "KeyError" ->
            [kind |-> "raise", value |-> None, exc |-> PyException("KeyError", <<plan.key>>),
             cache |-> c, calls |-> 0, op |-> None, url |-> <<>>, params |-> None, up |-> NoUpstream]
      [] plan.kind = "clear_cache" ->
            [kind |-> "return", value |-> "cleared", exc |-> NoException,
             cache |-> SimpleCache_clear(c), calls |-> 0, op |-> "clear_cache", url |-> <<>>,
             params |-> None, up |-> NoUpstream]
      [] plan.kind = "call" ->
            LET r == make_request(c, plan.url, plan.headers, plan.params, TRUE, t, up)
                u == IF r.calls = 0 THEN NoUpstream ELSE up
            IN  IF r.kind = "raise"
                THEN [kind |-> "raise", value |-> None, exc |-> r.exc, cache |-> r.cache,
                      calls |-> r.calls, op |-> plan.op, url |-> plan.url, params |-> plan.params, up |-> u]
                ELSE IF plan.unpack /\ r.value = None
                THEN [kind |-> "raise", value |-> None,
                      exc |-> PyException("TypeError", <<"argument after ** must be a mapping">>),
                      cache |-> r.cache, calls |-> r.calls, op |-> plan.op, url |-> plan.url,
                      params |-> plan.params, up |-> u]
                ELSE [kind |-> "return", value |-> r.value, exc |-> NoException,
                      cache |-> r.cache, calls |-> r.calls, op |-> plan.op, url |-> plan.url,
                      params |-> plan.params, up |-> u]

(***************************************************************************)
(* JSON-RPC envelopes                                                      *)
(***************************************************************************)
Absent == "absent"

\* a response carrying result; jsonrpc tells whether the "jsonrpc" member is present
Result(id, body, jsonrpc) ==
    [outcome |-> "result", id |-> id, code |-> 0, body |-> body, jsonrpc |-> jsonrpc]

\* a response carrying error
Error(id, code, message, jsonrpc) ==
    [outcome |-> "error", id |-> id, code |-> code, body |-> message, jsonrpc |-> jsonrpc]

NoResponse == [outcome |-> None]

\* the result of initialize: protocolVersion, capabilities and serverInfo
ServerDescriptor ==
    [protocolVersion |-> "2024-11-05", capabilities |-> {"tools", "resources"},
     serverInfo |-> [name |-> "mcp-uji-academic", version |-> "1.0.0"]]

\* the text of a tool result: json.dumps of these members
UnknownToolText(name) == [error |-> "Unknown tool", tool_name |-> name]

ToolOutputText(name, value) == [tool |-> name, data |-> value]

InternalErrorText(name, e) == [error |-> "INTERNAL_ERROR", message |-> e.message, tool |-> name]

APIErrorText(name, e) ==
    [error |-> e.error, message |-> e.message, status_code |-> e.status_code,
     endpoint |-> e.endpoint, tool |-> name]

\* MCPUJIServer.setup_tools.handle_call_tool: the text content it returns
StdioCallToolText(name, r) ==
    CASE r.kind = "unknown" -> UnknownToolText(name)
      [] r.kind = "return" -> ToolOutputText(name, r.value)
      [] r.kind = "raise" ->
            IF HasErrorAndMessage(r.exc) THEN APIErrorText(name, r.exc)
            ELSE InternalErrorText(name, r.exc)

\* RemoteMCPServer.setup_tools.handle_call_tool: the text content it returns
RemoteCallToolText(name, r) ==
    CASE r.kind = "unknown" -> UnknownToolText(name)
      [] r.kind = "return" -> ToolOutputText(name, r.value)
      [] r.kind = "raise" -> InternalErrorText(name, r.exc)

INFO_URI == "uji://api/info"

\* a decoded JSON value that is not an object (an array): it has no get
NotAnObject == [json |-> "array"]

IsObject(v) == "json" \notin DOMAIN v

\* str(e) of the AttributeError that v.get(...) raises on such a value
NoGetMessage == <<"'list' object has no attribute 'get'">>

\* the methods whose branch calls params.get
ReadsParams == {"tools/call", "resources/read"}

\* the methods mcp_endpoint has a branch for
HttpMethods == {"initialize", "tools/list", "tools/call", "resources/list", "resources/read"}

\* the methods websocket_endpoint has a branch for
WsMethods == {"tools/list", "tools/call", "resources/list", "resources/read"}

HttpResponse_unknownMethodInvalidParams(request, r) ==
    LET id == request.id
        method == request.method
        params == request.params
    IN  IF method \in ReadsParams /\ ~IsObject(params)
        THEN Error(id, -32603, <<"Internal error: ">> \o NoGetMessage, TRUE)
        ELSE
        CASE method = "initialize" -> Result(id, ServerDescriptor, TRUE)
          [] method = "tools/list" -> Result(id, HttpListedTools, TRUE)
          [] method = "tools/call" ->
                IF r.kind = "raise"
                THEN Error(id, -32603, <<"Tool execution error: ">> \o r.exc.message, TRUE)
                ELSE Result(id, IF r.kind = "unknown"
                                THEN UnknownToolText(Get(params, "name", None))
                                ELSE ToolOutputText(Get(params, "name", None), r.value), TRUE)
          [] method = "resources/list" -> Result(id, {INFO_URI}, TRUE)
          [] method = "resources/read" ->
                IF Get(params, "uri", None) = INFO_URI
                THEN Result(id, [uri |-> INFO_URI, text |-> "info"], TRUE)
                ELSE Error(id, -32602, <<"Unknown resource: ", Get(params, "uri", None)>>, TRUE)
          [] OTHER -> Error(id, -32602, <<"Method not found: ", method>>, TRUE)

\* mcp_endpoint: the response to a request object, given how the tool branch
\* (if the method is tools/call) ran
HttpResponse(request, r) ==
    LET id == request.id
        method == request.method
        params == request.params
    IN  IF method \in ReadsParams /\ ~IsObject(params)
        THEN Error(id, -32603, <<"Internal error: ">> \o NoGetMessage, TRUE)
        ELSE
        CASE method = "initialize" -> Result(id, ServerDescriptor, TRUE)
          [] method = "tools/list" -> Result(id, HttpListedTools, TRUE)
          [] method = "tools/call" ->
                IF r.kind = "raise"
                THEN Error(id, -32603, <<"Tool execution error: ">> \o r.exc.message, TRUE)
                ELSE Result(id, IF r.kind = "unknown"
                                THEN UnknownToolText(Get(params, "name", None))
                                ELSE ToolOutputText(Get(params, "name", None), r.value), TRUE)
          [] method = "resources/list" -> Result(id, {INFO_URI}, TRUE)
          [] method = "resources/read" ->
                IF Get(params, "uri", None) = INFO_URI
                THEN Result(id, [uri |-> INFO_URI, text |-> "info"], TRUE)
                ELSE Error(id, -32602, <<"Unknown resource: ", Get(params, "uri", None)>>, TRUE)
          [] OTHER -> Error(id, -32601, <<"Method not found: ", method>>, TRUE)

\* websocket_endpoint: the response to a frame holding a request object
WsResponse(request, r) ==
    LET id == request.id
        method == request.method
        params == request.params
    IN  IF method \in ReadsParams /\ ~IsObject(params)
        THEN Error(id, -32603, <<"Internal error: ">> \o NoGetMessage, FALSE)
        ELSE
        CASE method = "tools/list" -> Result(id, RemoteListedTools, FALSE)
          [] method = "tools/call" ->
                Result(id, RemoteCallToolText(Get(params, "name", None), r), FALSE)
          [] method = "resources/list" -> Result(id, {INFO_URI}, FALSE)
          [] method = "resources/read" ->
                IF Get(params, "uri", None) = INFO_URI
                THEN Result(id, [uri |-> INFO_URI, text |-> "info"], FALSE)
                ELSE Error(id, -32603,
                           <<"Internal error: ", "Unknown resource: ", Get(params, "uri", None)>>,
                           FALSE)
          [] OTHER -> Error(id, -32601, <<"Method not found: ", method>>, FALSE)

(***************************************************************************)
(* The servers                                                             *)
(***************************************************************************)
Socks == {"w1", "w2"}
ClientIds == {"alice", "bob"}
Ids == {"7", None}

\* name and arguments of the tools/call requests sent
ToolCalls ==
    {[name |-> "get_subjects", arguments |-> EmptyDict],
     [name |-> "get_subjects", arguments |-> [limit |-> 500]],
     [name |-> "get_subjects", arguments |-> [limit |-> 101]],
     [name |-> "get_subjects", arguments |-> [limit |-> 5, start |-> 40]],
     [name |-> "get_subject_details", arguments |-> [subject_id |-> "ZZZ999"]],
     [name |-> "search_subjects", arguments |-> EmptyDict],
     [name |-> "get_degrees", arguments |-> [full |-> TRUE]],
     [name |-> "get_class_schedule", arguments |-> [year |-> "2025", degree_id |-> "208"]],
     [name |-> "clear_cache", arguments |-> EmptyDict],
     [name |-> "no_such_tool", arguments |-> EmptyDict]}

\* methods sent without params; None is a request without a method member
PlainMethods == {"initialize", "ping", "tools/list", "tools/call", "resources/list",
                 "resources/read", "resources/templates/list", "prompts/list",
                 "no/such", None}

Uris == {INFO_URI, "bad://x"}

\* the JSON-RPC request objects sent; request.get("params", {}) is EmptyDict
\* when the member is missing, request.get("id") is None when it is missing
Requests ==
    {[id |-> i, method |-> m, params |-> EmptyDict] : i \in Ids, m \in PlainMethods}
    \cup {[id |-> "7", method |-> "tools/call", params |-> c] : c \in ToolCalls}
    \cup {[id |-> i, method |-> "resources/read", params |-> [uri |-> u]] : i \in Ids, u \in Uris}
    \cup {[id |-> "7", method |-> m, params |-> NotAnObject] :
              m \in {"tools/list", "tools/call", "resources/read"}}

\* the process is the stdio server or the HTTP/WebSocket gateway; its client
\* does not exist yet
InitServer ==
    /\ now = 0
    /\ cache = EmptyCache
    /\ lastSet = EmptyCache
    /\ last = NoOp
    /\ prev = NoOp
    /\ nOps = 0
    /\ client = 0
    /\ proc \in {"stdio", "remote"}
    /\ active_connections = EmptyDict
    /\ sockCid = [s \in Socks |-> None]
    /\ threads = EmptyDict

EnsureClient_alwaysNew(c) == c + 1

\* if not self.client: self.client = create_uji_client()
EnsureClient(c) == IF c = 0 THEN c + 1 ELSE c

\* the cache of the client a tool runs on: that of a client just created
\* (ReyesClient.__init__) is empty
CacheOf(before, after, c) == IF after = before THEN c ELSE EmptyCache

\* the history of sets after a step that took the cache from c1 to c2
SetHistory(c1, c2) ==
    IF c2 = EmptyCache /\ c1 # EmptyCache THEN EmptyCache
    ELSE [k \in (DOMAIN lastSet \cup Written(c1, c2)) |->
             IF k \in Written(c1, c2)
             THEN [value |-> c2[k].value, at |-> now, ttl |-> c2[k].expires - now]
             ELSE lastSet[k]]

\* a method other than tools/call runs no tool
NoTool(c) ==
    [kind |-> None, value |-> None, exc |-> NoException, cache |-> c, calls |-> 0,
     op |-> None, url |-> <<>>, params |-> None, up |-> NoUpstream]

Observation(transport, sock, request, response, deliveredTo, r) ==
    [op |-> transport, sock |-> sock, request |-> request, response |-> response,
     deliveredTo |-> deliveredTo, tool |-> [kind |-> r.kind, exc |-> r.exc, value |-> r.value],
     calls |-> r.calls, domainOp |-> r.op, url |-> r.url, upParams |-> r.params, up |-> r.up,
     clientBefore |-> client, cacheBefore |-> cache, connsBefore |-> active_connections,
     cid |-> IF sock = None THEN None ELSE sockCid[sock], at |-> now]

\* what is remembered of an operation once another has followed it
Brief(o) ==
    [op |-> o.op,
     sock |-> IF "sock" \in DOMAIN o THEN o.sock ELSE None,
     outcome |-> IF "response" \in DOMAIN o THEN o.response.outcome ELSE None]

\* tool_name = params.get("name"), arguments = params.get("arguments", {}) and
\* the branch they select in the dispatchers of remote_server.py
RemotePlan(request) ==
    IF request.method = "tools/call" /\ IsObject(request.params)
    THEN ToolPlan(Get(request.params, "name", None),
                  Get(request.params, "arguments", EmptyDict), RemoteTools)
    ELSE [kind |-> None]

\* the answers the upstream may give to a step: none is asked for unless a
\* client method is called
Answers(plan) == IF plan.kind = "call" THEN UpstreamOutcomes ELSE {NoUpstream}

\* POST /mcp: mcp_endpoint(request)
HttpPost(bound) ==
    /\ nOps < bound
    /\ proc = "remote"
    /\ \E request \in Requests : \E up \in Answers(RemotePlan(request)) :
       \E r \in {IF RemotePlan(request).kind # None
                 THEN RunTool(CacheOf(client, EnsureClient(client), cache),
                              RemotePlan(request), now, up)
                 ELSE NoTool(cache)} :
             /\ client' = (IF RemotePlan(request).kind # None THEN EnsureClient(client)
                           ELSE client)
             /\ cache' = r.cache
             /\ lastSet' = SetHistory(cache, r.cache)
             /\ last' = Observation("http", None, request, HttpResponse(request, r),
                                    "caller", r)
    /\ nOps' = nOps + 1
    /\ prev' = Brief(last)
    /\ UNCHANGED <<now, proc, active_connections, sockCid, threads>>

\* the answer the framework gives to a POST /mcp body that is not an object,
\* the parameter being declared as request: dict: HTTP 422 with a detail
\* member, and mcp_endpoint is not entered
ValidationErrorResponse ==
    [outcome |-> "detail", id |-> Absent, code |-> 422, body |-> <<"Input should be a valid dictionary">>,
     jsonrpc |-> FALSE]

\* POST /mcp with a JSON body that is not an object
HttpNonObject(bound) ==
    /\ nOps < bound
    /\ proc = "remote"
    /\ last' = Observation("http_nonobject", None,
                           [id |-> Absent, method |-> Absent, params |-> EmptyDict],
                           ValidationErrorResponse, "caller", NoTool(cache))
    /\ nOps' = nOps + 1
    /\ prev' = Brief(last)
    /\ UNCHANGED <<now, cache, lastSet, client, proc, active_connections, sockCid, threads>>

\* manager.send_message(client_id, message): the websocket it is sent on
SentOn(cid) == IF cid \in DOMAIN active_connections THEN active_connections[cid] ELSE None

\* a websocket connects to /ws/{client_id}: manager.connect
WsConnect(bound) ==
    /\ nOps < bound
    /\ proc = "remote"
    /\ \E s \in Socks, cid \in ClientIds :
         /\ sockCid[s] = None
         /\ active_connections' = Put(active_connections, cid, s)
         /\ sockCid' = [sockCid EXCEPT ![s] = cid]
         /\ last' = [op |-> "ws_connect", sock |-> s, cid |-> cid, clientBefore |-> client]
    /\ nOps' = nOps + 1
    /\ prev' = Brief(last)
    /\ UNCHANGED <<now, cache, lastSet, client, proc, threads>>

\* the peer goes away: receive_text raises WebSocketDisconnect, manager.disconnect
WsDisconnect(bound) ==
    /\ nOps < bound
    /\ proc = "remote"
    /\ \E s \in Socks :
         /\ sockCid[s] # None
         /\ active_connections' = Del(active_connections, sockCid[s])
         /\ sockCid' = [sockCid EXCEPT ![s] = None]
         /\ last' = [op |-> "ws_disconnect", sock |-> s, cid |-> sockCid[s],
                     clientBefore |-> client, connsBefore |-> active_connections]
    /\ nOps' = nOps + 1
    /\ prev' = Brief(last)
    /\ UNCHANGED <<now, cache, lastSet, client, proc, threads>>

\* a frame holding a request object arrives on websocket s
WsRequest(bound) ==
    /\ nOps < bound
    /\ proc = "remote"
    /\ \E s \in {w \in Socks : sockCid[w] # None}, request \in Requests :
       \E up \in Answers(RemotePlan(request)) :
       \E r \in {IF RemotePlan(request).kind # None
                 THEN RunTool(CacheOf(client, EnsureClient(client), cache),
                              RemotePlan(request), now, up)
                 ELSE NoTool(cache)} :
             /\ client' = (IF RemotePlan(request).kind # None THEN EnsureClient(client)
                           ELSE client)
             /\ cache' = r.cache
             /\ lastSet' = SetHistory(cache, r.cache)
             /\ last' = Observation("ws", s, request, WsResponse(request, r),
                                    SentOn(sockCid[s]), r)
    /\ nOps' = nOps + 1
    /\ prev' = Brief(last)
    /\ UNCHANGED <<now, proc, active_connections, sockCid, threads>>

ParseErrorResponse_asInternalError ==
    [outcome |-> "error", id |-> Absent, code |-> -32603,
     body |-> <<"Internal error: ", "Expecting value">>, jsonrpc |-> FALSE]

\* the response to a frame json.loads rejects: an error member and no id member
ParseErrorResponse ==
    [outcome |-> "error", id |-> Absent, code |-> -32700,
     body |-> <<"Parse error">>, jsonrpc |-> FALSE]

\* a frame that is not JSON arrives on websocket s
WsMalformed(bound) ==
    /\ nOps < bound
    /\ proc = "remote"
    /\ \E s \in Socks :
         /\ sockCid[s] # None
         /\ last' = Observation("ws_malformed", s,
                                [id |-> Absent, method |-> Absent, params |-> EmptyDict],
                                ParseErrorResponse,
                                SentOn(sockCid[s]), NoTool(cache))
    /\ nOps' = nOps + 1
    /\ prev' = Brief(last)
    /\ UNCHANGED <<now, cache, lastSet, client, proc, active_connections, sockCid, threads>>

\* a frame holding JSON that is not an object arrives on websocket s:
\* request.get raises AttributeError, and raises it again in the handler that
\* builds the error response, so the endpoint leaves its loop and disconnects
WsNonObject(bound) ==
    /\ nOps < bound
    /\ proc = "remote"
    /\ \E s \in Socks :
         /\ sockCid[s] # None
         /\ active_connections' = Del(active_connections, sockCid[s])
         /\ sockCid' = [sockCid EXCEPT ![s] = None]
         /\ last' = Observation("ws_nonobject", s,
                                [id |-> Absent, method |-> Absent, params |-> EmptyDict],
                                NoResponse, None, NoTool(cache))
    /\ nOps' = nOps + 1
    /\ prev' = Brief(last)
    /\ UNCHANGED <<now, cache, lastSet, client, proc, threads>>

\* the stdio server's tools/call: MCPUJIServer handle_call_tool(name, arguments)
StdioCallTool(bound) ==
    /\ nOps < bound
    /\ proc = "stdio"
    /\ \E i \in {"7"}, c \in ToolCalls :
       \E up \in Answers(ToolPlan(c.name, c.arguments, StdioTools)) :
       \E r \in {RunTool(CacheOf(client, EnsureClient(client), cache),
                          ToolPlan(c.name, c.arguments, StdioTools), now, up)} :
             /\ client' = EnsureClient(client)
             /\ cache' = r.cache
             /\ lastSet' = SetHistory(cache, r.cache)
             /\ last' = Observation("stdio", None,
                                    [id |-> i, method |-> "tools/call", params |-> c],
                                    Result(i, StdioCallToolText(c.name, r), TRUE),
                                    "caller", r)
    /\ nOps' = nOps + 1
    /\ prev' = Brief(last)
    /\ UNCHANGED <<now, proc, active_connections, sockCid, threads>>

\* the stdio server's tools/list: MCPUJIServer handle_list_tools()
StdioListTools(bound) ==
    /\ nOps < bound
    /\ proc = "stdio"
    /\ \E i \in Ids :
         last' = Observation("stdio", None,
                             [id |-> i, method |-> "tools/list", params |-> EmptyDict],
                             Result(i, StdioListedTools, TRUE), "caller", NoTool(cache))
    /\ nOps' = nOps + 1
    /\ prev' = Brief(last)
    /\ UNCHANGED <<now, cache, lastSet, client, proc, active_connections, sockCid, threads>>

TickServer(bound) == Tick(bound)

MaxServerOps == 3

Next ==
    \/ HttpPost(MaxServerOps)
    \/ WsConnect(MaxServerOps)
    \/ WsDisconnect(MaxServerOps)
    \/ WsRequest(MaxServerOps)
    \/ WsMalformed(MaxServerOps)
    \/ WsNonObject(MaxServerOps)
    \/ StdioCallTool(MaxServerOps)
    \/ HttpNonObject(MaxServerOps)
    \/ StdioListTools(MaxServerOps)
    \/ TickServer(MaxServerOps)

Spec == InitServer /\ [][Next]_vars

(***************************************************************************)
(* Two threads in _make_request on one client                              *)
(***************************************************************************)
Threads == {"t1", "t2"}

\* both threads make the same cached request
RaceKey == CacheKey(<<"asignaturas">>, ParamsAB, None)

OtherKey == CacheKey(<<"horarios">>, None, HeadersAB)

\* the body each thread's GET decodes to when the upstream answers with one
ThreadBody == [t1 |-> "v1", t2 |-> "v2"]

NoEntry == [value |-> None, expires |-> 0]

Idle == [pc |-> "idle", entry |-> NoEntry, up |-> NoUpstream, result |-> None,
         wrote |-> NoEntry, exc |-> NoException]

\* a client whose cache holds entries earlier requests stored at time 0, and two threads
\* about to call _make_request on it
InitRace ==
    /\ now = 0
    /\ cache \in {SimpleCache_set(EmptyCache, OtherKey, "w", CACHE_EXPIRY_MINUTES, 0),
                  SimpleCache_set(SimpleCache_set(EmptyCache, OtherKey, "w",
                                                  CACHE_EXPIRY_MINUTES, 0),
                                  RaceKey, "v0", CACHE_EXPIRY_MINUTES, 0)}
    /\ lastSet = EmptyCache
    /\ last = [op |-> "race", pre |-> cache]
    /\ prev = NoOp
    /\ nOps = 0
    /\ client = 1
    /\ proc = "script"
    /\ active_connections = EmptyDict
    /\ sockCid = EmptyDict
    /\ threads = [t \in Threads |-> Idle]

rest == <<lastSet, last, prev, nOps, client, proc, active_connections, sockCid>>

\* thread t moves to pc, with the fields in upd changed
Move(t, upd) == threads' = [threads EXCEPT ![t] = upd]

KeyErrorRaised(t) ==
    [threads[t] EXCEPT !.pc = "raised", !.exc = PyException("KeyError", RaceKey)]

\* t calls _make_request(url, params=..., use_cache=True) and enters cache.get
RaceCall ==
    \E t \in Threads :
        /\ threads[t].pc = "idle"
        /\ Move(t, [threads[t] EXCEPT !.pc = "contains"])
        /\ UNCHANGED <<now, cache, rest>>

\* SimpleCache.get: if key in self._cache
RaceContains ==
    \E t \in Threads :
        /\ threads[t].pc = "contains"
        /\ Move(t, [threads[t] EXCEPT !.pc = IF RaceKey \in DOMAIN cache THEN "index"
                                             ELSE "request"])
        /\ UNCHANGED <<now, cache, rest>>

\* SimpleCache.get: entry = self._cache[key]
RaceIndex ==
    \E t \in Threads :
        /\ threads[t].pc = "index"
        /\ Move(t, IF RaceKey \in DOMAIN cache
                   THEN [threads[t] EXCEPT !.pc = "compare", !.entry = cache[RaceKey]]
                   ELSE KeyErrorRaised(t))
        /\ UNCHANGED <<now, cache, rest>>

\* SimpleCache.get: if datetime.now() < entry["expires"]: return entry["value"],
\* and _make_request returns that value unless it is None
RaceCompare ==
    \E t \in Threads :
        /\ threads[t].pc = "compare"
        /\ Move(t, IF now < threads[t].entry.expires
                   THEN IF threads[t].entry.value # None
                        THEN [threads[t] EXCEPT !.pc = "returned",
                                                !.result = threads[t].entry.value]
                        ELSE [threads[t] EXCEPT !.pc = "request"]
                   ELSE [threads[t] EXCEPT !.pc = "delete"])
        /\ UNCHANGED <<now, cache, rest>>

\* SimpleCache.get: del self._cache[key]
RaceDelete ==
    \E t \in Threads :
        /\ threads[t].pc = "delete"
        /\ IF RaceKey \in DOMAIN cache
           THEN /\ cache' = Del(cache, RaceKey)
                /\ Move(t, [threads[t] EXCEPT !.pc = "request"])
           ELSE /\ cache' = cache
                /\ Move(t, KeyErrorRaised(t))
        /\ UNCHANGED <<now, rest>>

\* _make_request: session.get, raise_for_status and the decoding
RaceRequest ==
    \E t \in Threads, up \in UpstreamOutcomes :
        /\ threads[t].pc = "request"
        /\ Move(t, IF up.kind # "response" \/ RaisesForStatus(up.status)
                   THEN [threads[t] EXCEPT !.pc = "raised", !.up = up,
                             !.exc = Raise(APIError(IF up.kind = "response" THEN "HTTP_ERROR"
                                                    ELSE IF up.kind = "RequestException"
                                                    THEN "REQUEST_ERROR"
                                                    ELSE "UNKNOWN_ERROR",
                                                    <<up.message>>, up.status,
                                                    <<"asignaturas">>))]
                   ELSE [threads[t] EXCEPT
                             !.pc = IF up.status = 200 THEN "store" ELSE "returned",
                             !.up = up,
                             !.result = IF up.body = None THEN None ELSE ThreadBody[t]])
        /\ UNCHANGED <<now, cache, rest>>

\* _make_request: self.cache.set(cache_key, result), then return result
RaceStore ==
    \E t \in Threads :
        /\ threads[t].pc = "store"
        /\ cache' = SimpleCache_set(cache, RaceKey, threads[t].result,
                                    CACHE_EXPIRY_MINUTES, now)
        /\ Move(t, [threads[t] EXCEPT !.pc = "returned", !.wrote = cache'[RaceKey]])
        /\ UNCHANGED <<now, rest>>

\* time passes while the threads run
TickRace ==
    /\ \E d \in Deltas :
         /\ now + d <= MaxTime
         /\ now' = now + d
    /\ UNCHANGED <<cache, threads, rest>>

NextRace ==
    \/ RaceCall \/ RaceContains \/ RaceIndex \/ RaceCompare \/ RaceDelete
    \/ RaceRequest \/ RaceStore \/ TickRace

SpecRace == InitRace /\ [][NextRace]_vars

(***************************************************************************)
(* Properties                                                              *)
(***************************************************************************)
LastKey == CacheKey(last.url, last.params, last.headers)

\* C1: a get of key k made with no time elapsed since the latest set(k, v)
\* returns v; a get made at or after that set's expiry (its TTL elapsed)
\* returns None and leaves no entry for k in the store, and so does every
\* later get until k is set again.
C1_GetAfterSet ==
    (last.op = "get" /\ last.key \in DOMAIN lastSet) =>
        LET s == lastSet[last.key]
        IN  /\ (last.at = s.at => last.value = s.value)
            /\ (last.at >= s.at + s.ttl => last.value = None /\ last.evicted)

\* two gets in a row of a key whose entry, holding a value, has expired
C1_Witness ==
    /\ last.op = "get" /\ prev.op = "get" /\ prev.key = last.key
    /\ last.key \in DOMAIN lastSet
    /\ lastSet[last.key].value # None
    /\ prev.at >= lastSet[last.key].at + lastSet[last.key].ttl
    /\ last.value = None /\ last.evicted

\* C2: a request with use_cache=True whose key has a non-expired entry,
\* whatever the value stored in it, returns that value and issues no
\* upstream call.
C2_HitIssuesNoCall ==
    (/\ last.op = "request" /\ last.use_cache
     /\ LastKey \in DOMAIN last.pre
     /\ last.at < last.pre[LastKey].expires)
    => (last.kind = "return" /\ last.value = last.pre[LastKey].value /\ last.calls = 0)

\* C3: a request that has the url and the same parameters and headers as the
\* request before it, in whatever order they are supplied, derives the same
\* cache key, and is served from the entry (holding a value) the earlier
\* request left.
C3_KeyIgnoresOrder ==
    (/\ last.op = "request" /\ prev.op = "request"
     /\ last.use_cache
     /\ last.url = prev.url
     /\ SameDict(last.params, prev.params)
     /\ SameDict(last.headers, prev.headers)
     /\ CacheKey(prev.url, prev.params, prev.headers) \in DOMAIN last.pre
     /\ last.pre[CacheKey(prev.url, prev.params, prev.headers)].value # None
     /\ last.at < last.pre[CacheKey(prev.url, prev.params, prev.headers)].expires)
    => /\ LastKey = CacheKey(prev.url, prev.params, prev.headers)
       /\ last.calls = 0
       /\ last.value = last.pre[CacheKey(prev.url, prev.params, prev.headers)].value

\* C4: a request the upstream answers with a non-2xx status fails with an
\* APIError of kind HTTP_ERROR carrying that status and the url.
C4_HttpErrorIsAPIError ==
    (/\ last.op = "request" /\ last.calls = 1
     /\ last.up.kind = "response"
     /\ ~(last.up.status >= 200 /\ last.up.status < 300))
    => /\ last.kind = "raise"
       /\ last.exc.cls = "APIError"
       /\ last.exc.error = "HTTP_ERROR"
       /\ last.exc.status_code = last.up.status
       /\ last.exc.endpoint = last.url

\* C5: a request that fails for another reason than a non-2xx status fails
\* with an APIError with status_code 0 and the url, of kind REQUEST_ERROR for
\* a transport failure and UNKNOWN_ERROR for any other exception.
C5_OtherFailuresAreAPIErrors ==
    (/\ last.op = "request" /\ last.kind = "raise"
     /\ last.up.kind # "response")
    => /\ last.exc.cls = "APIError"
       /\ last.exc.status_code = 0
       /\ last.exc.endpoint = last.url
       /\ (last.up.kind = "RequestException" => last.exc.error = "REQUEST_ERROR")
       /\ (last.up.kind = "Exception" => last.exc.error = "UNKNOWN_ERROR")

\* the latest step is a tools/call handled by one of the dispatchers
IsToolCall ==
    /\ last.op \in {"http", "ws", "stdio"}
    /\ last.request.method = "tools/call"
    /\ IsObject(last.request.params)

ToolName == Get(last.request.params, "name", None)

\* the upstream failed the GET of the latest step
UpstreamFailed ==
    /\ last.calls = 1
    /\ \/ last.up.kind \in {"RequestException", "Exception"}
       \/ last.up.kind = "response" /\ ~(last.up.status >= 200 /\ last.up.status < 300)

\* C6: when the client method a tools/call invokes fails on an upstream
\* failure (e.g. HTTP 404), the call returns a result whose text has the
\* members error, message, status_code (the upstream status, 0 without one),
\* endpoint (the url) and tool.
C6_APIErrorEmbedded ==
    (IsToolCall /\ UpstreamFailed) =>
        /\ last.response.outcome = "result"
        /\ {"error", "message", "status_code", "endpoint", "tool"} \subseteq DOMAIN last.response.body
        /\ last.response.body.status_code = last.up.status
        /\ last.response.body.endpoint = last.url
        /\ last.response.body.tool = ToolName

\* C7: a tools/call whose tool branch raises (in the client method or while
\* reading the arguments) is answered with a result whose text carries an
\* error member, never with a JSON-RPC error.
C7_ToolFailureIsResult ==
    (IsToolCall /\ last.tool.kind = "raise") =>
        /\ last.response.outcome = "result"
        /\ "error" \in DOMAIN last.response.body

\* the names tools/list of the transport returns
Catalog(transport) == IF transport = "stdio" THEN StdioTools ELSE RemoteTools

\* C8: a tools/call whose name is not in the catalog is answered with a
\* result (no error) whose text has error = "Unknown tool" and the name
\* given, and calls no client method and no upstream.
C8_UnknownTool ==
    (IsToolCall /\ ToolName \notin Catalog(last.op)) =>
        /\ last.response.outcome = "result"
        /\ last.response.body = [error |-> "Unknown tool", tool_name |-> ToolName]
        /\ last.domainOp = None
        /\ last.calls = 0
        /\ cache = last.cacheBefore

\* an unknown name sent over each transport of the gateway, the second
\* time with entries in the cache
C8_Witness ==
    /\ IsToolCall /\ last.op = "http"
    /\ ToolName = "no_such_tool"
    /\ last.response.outcome = "result"
    /\ last.cacheBefore # EmptyCache

\* C9: resources/read of a uri other than the info resource is answered
\* with error -32602 over HTTP and over WebSocket.
C9_UnknownResource ==
    (/\ last.op \in {"http", "ws"}
     /\ last.request.method = "resources/read"
     /\ IsObject(last.request.params)
     /\ Get(last.request.params, "uri", None) # INFO_URI)
    => (last.response.outcome = "error" /\ last.response.code = -32602)

\* the methods the dispatcher of a transport has a branch for
Implemented(transport) == IF transport = "http" THEN HttpMethods ELSE WsMethods

\* C10: a request object whose method (possibly missing) has no branch in
\* the dispatcher gets the response error -32601 with the request's id, and
\* the step creates no client and leaves the cache as it was.
C10_MethodNotFound ==
    (last.op \in {"http", "ws"} /\ last.request.method \notin Implemented(last.op)) =>
        /\ last.response.outcome = "error"
        /\ last.response.code = -32601
        /\ last.response.id = last.request.id
        /\ client = last.clientBefore
        /\ cache = last.cacheBefore

\* a request without method, with an id, made when the cache holds entries
C10_Witness ==
    /\ last.op = "http"
    /\ last.request.method = None
    /\ last.request.id = "7"
    /\ last.response.code = -32601
    /\ client # 0 /\ cache # EmptyCache

\* C11: a WebSocket frame that is not JSON gets the error response -32700;
\* the connection stays open and the registry is left as it was, and a
\* request sent next on the same connection gets the response carrying its
\* id (for tools/list, the result listing the catalog).
C11_ParseErrorKeepsConnection ==
    /\ last.op = "ws_malformed" =>
          /\ last.response.outcome = "error"
          /\ last.response.code = -32700
          /\ sockCid[last.sock] = last.cid
          /\ active_connections = last.connsBefore
    /\ (last.op = "ws" /\ prev.op = "ws_malformed" /\ prev.sock = last.sock) =>
          /\ last.response.outcome \in {"result", "error"}
          /\ last.response.id = last.request.id
          /\ (last.request.method = "tools/list" =>
                 /\ last.response.outcome = "result"
                 /\ last.response.body = RemoteListedTools)

\* tools/list served on a connection right after a frame that was not JSON
C11_Witness ==
    /\ last.op = "ws" /\ prev.op = "ws_malformed" /\ prev.sock = last.sock
    /\ prev.outcome = "error"
    /\ last.request.method = "tools/list"
    /\ last.response.outcome = "result"
    /\ last.deliveredTo = last.sock

\* sub occurs in seq as a run of consecutive elements
Contains(seq, sub) ==
    \E i \in 0..(Len(seq) - Len(sub)) : SubSeq(seq, i + 1, i + Len(sub)) = sub

\* the latest step raised an exception outside the handling of a tool:
\* params.get on params that is not an object, request.get on a frame that
\* is not an object, ValueError from the resource handler
EscapedException ==
    IF last.op = "ws_nonobject" THEN NoGetMessage
    ELSE IF last.op \in {"http", "ws"} /\ last.request.method \in ReadsParams
            /\ ~IsObject(last.request.params) THEN NoGetMessage
    ELSE IF last.op = "ws" /\ last.request.method = "resources/read"
            /\ Get(last.request.params, "uri", None) # INFO_URI
         THEN <<"Unknown resource: ", Get(last.request.params, "uri", None)>>
    ELSE <<>>

\* C12: a step in which an exception escapes the handling of the method is
\* answered with error -32603 whose message contains the exception's
\* message, and a WebSocket connection it happened on stays open.
C12_EscapedExceptionIsInternalError ==
    (last.op \in {"http", "ws", "ws_nonobject"} /\ EscapedException # <<>>) =>
        /\ last.response.outcome = "error"
        /\ last.response.code = -32603
        /\ Contains(last.response.body, EscapedException)
        /\ (last.sock # None => sockCid[last.sock] = last.cid)

\* the steps in which a transport of the gateway is handed a request
Delivered == last.op \in {"http", "http_nonobject", "ws", "ws_malformed", "ws_nonobject"}

\* C13: every POST /mcp body and every WebSocket frame, whatever it holds,
\* is answered with a response carrying result or error.
C13_AlwaysAnswered ==
    Delivered => last.response.outcome \in {"result", "error"}

\* C14: every response of the gateway carries an id member equal to the id
\* of the request it answers, null (None) when the request has none.
C14_IdEchoed ==
    (Delivered /\ last.response.outcome \in {"result", "error"}) =>
        last.response.id = (IF last.request.id = Absent THEN None ELSE last.request.id)

\* C15: ping is answered with a result that is empty, never with an error,
\* over HTTP and over WebSocket, whatever the state of the server.
C15_PingSucceeds ==
    (last.op \in {"http", "ws"} /\ last.request.method = "ping") =>
        /\ last.response.outcome = "result"
        /\ last.response.body = EmptyDict

\* C16: initialize is answered with a result holding the fixed descriptor,
\* never with an error, over HTTP and over WebSocket, whatever the state of
\* the server.
C16_InitializeSucceeds ==
    (last.op \in {"http", "ws"} /\ last.request.method = "initialize") =>
        /\ last.response.outcome = "result"
        /\ last.response.body = ServerDescriptor

\* C17: resources/templates/list and prompts/list are each answered with a
\* result holding an empty list, never with an error.
C17_StubsReturnEmptyLists ==
    (/\ last.op \in {"http", "ws"}
     /\ last.request.method \in {"resources/templates/list", "prompts/list"})
    => /\ last.response.outcome = "result"
       /\ last.response.body = {}

\* how the tool branch of the latest step ran, as the dispatchers see it
LastRun == [kind |-> last.tool.kind, exc |-> last.tool.exc, value |-> last.tool.value]

\* the response the other transport of the gateway gives to the request of
\* the latest step, in the same state
OtherTransportResponse ==
    IF last.op = "http" THEN WsResponse(last.request, LastRun)
    ELSE HttpResponse(last.request, LastRun)

\* C18: the HTTP dispatcher and the WebSocket dispatcher answer the same
\* request, in the same state, with the same outcome kind, the same error
\* code and the same payload.
C18_TransportsAgree ==
    last.op \in {"http", "ws"} =>
        /\ last.response.outcome = OtherTransportResponse.outcome
        /\ last.response.code = OtherTransportResponse.code
        /\ (last.response.outcome = "result" =>
               last.response.body = OtherTransportResponse.body)

\* the names tools/call of a transport dispatches to an operation
Dispatched(transport) == IF transport = "stdio" THEN StdioTools ELSE RemoteTools

\* the catalog of the 14 tools
FullCatalog ==
    {"get_subjects", "get_subject_details", "get_subject_groups", "get_subject_subgroups",
     "search_subjects", "get_degrees", "get_degree_details", "search_degrees",
     "get_locations", "get_location_details", "search_locations",
     "get_class_schedule", "get_exam_schedule", "clear_cache"}

\* C19: tools/list is answered, whatever preceded it, with the names
\* tools/call of that transport dispatches to an operation, and these are
\* the 14 names of the catalog on every transport.
C19_CatalogIsFixed ==
    (last.op \in {"http", "ws", "stdio"} /\ last.request.method = "tools/list") =>
        /\ last.response.outcome = "result"
        /\ last.response.body = Dispatched(last.op)
        /\ last.response.body = FullCatalog

\* d[k] of a dict given as a sequence of pairs, None without such a key
ParamOf(d, k) ==
    IF d # None /\ \E i \in 1..Len(d) : d[i][1] = k
    THEN d[CHOOSE i \in 1..Len(d) : d[i][1] = k][2]
    ELSE None

\* the limit argument of the latest tools/call, 20 when it is omitted
LimitArgument == Get(Get(last.request.params, "arguments", EmptyDict), "limit", 20)

\* C20: a tools/call of get_subjects passes to the listing operation the
\* limit min(limit, 100), 20 when the argument is omitted, which is never
\* above 100 (100 for limit = 500).
C20_LimitClamped ==
    (IsToolCall /\ ToolName = "get_subjects") =>
        /\ last.domainOp = "get_subjects"
        /\ ParamOf(last.upParams, "limit") =
              ToString(IF LimitArgument > 100 THEN 100 ELSE LimitArgument)
        /\ ParamOf(last.upParams, "limit") \in {ToString(n) : n \in 0..100}
        /\ (LimitArgument = 500 => ParamOf(last.upParams, "limit") = "100")

\* get_subjects called with limit 500 and the listing fetched upstream
C20_Witness ==
    /\ IsToolCall /\ ToolName = "get_subjects"
    /\ LimitArgument = 500
    /\ last.calls = 1
    /\ ParamOf(last.upParams, "limit") = "100"

\* the steps that record the client the server held before them
RecordsClient ==
    last.op \in {"http", "http_nonobject", "ws", "ws_malformed", "ws_nonobject", "stdio",
                 "ws_connect", "ws_disconnect"}

\* C21: the process creates at most one client: there is none until the
\* first tools/call, that call creates it, and every later step, tools/call
\* or not and over whichever transport, leaves the same instance in place.
C21_SingleClient ==
    /\ client \in {0, 1}
    /\ last.op = "init" => client = 0
    /\ RecordsClient =>
          /\ (IsToolCall => client = 1)
          /\ (~IsToolCall => client = last.clientBefore)
          /\ (last.clientBefore # 0 => client = last.clientBefore)

\* a tools/call over WebSocket running on the client that a tools/call over
\* HTTP created
C21_Witness ==
    /\ IsToolCall /\ last.op = "ws"
    /\ prev.op = "http"
    /\ last.clientBefore = 1 /\ client = 1
    /\ last.calls = 0 /\ last.tool.kind = "return" /\ last.domainOp # None

\* C22: the clear_cache tool returns a result without an error member, also
\* as the first tool call of the process, and leaves a cache in which get
\* returns None for every key, so that a cached request for any key issues
\* an upstream call.
C22_ClearEmptiesCache ==
    (IsToolCall /\ last.op = "stdio" /\ ToolName = "clear_cache") =>
        /\ last.response.outcome = "result"
        /\ "error" \notin DOMAIN last.response.body
        /\ \A a \in RequestArgs :
              /\ SimpleCache_get(cache, CacheKey(a[1], a[2], a[3]), now).value = None
              /\ \A up \in UpstreamOutcomes :
                    make_request(cache, a[1], a[3], a[2], TRUE, now, up).calls = 1
        /\ \A k \in DOMAIN last.cacheBefore : SimpleCache_get(cache, k, now).value = None

\* clear_cache called when the cache holds an entry with a value
C22_Witness ==
    /\ IsToolCall /\ last.op = "stdio" /\ ToolName = "clear_cache"
    /\ \E k \in DOMAIN last.cacheBefore :
          /\ last.cacheBefore[k].value # None
          /\ last.at < last.cacheBefore[k].expires
    /\ last.response.outcome = "result"
    /\ cache = EmptyCache

\* C24: a set on a key that has an entry replaces its value and its expiry:
\* the store holds the new value with the expiry counted from this set, and
\* a later get returns the new value while that TTL has not elapsed and None
\* once it has, whether the replaced entry expired earlier or later.
C24_SetOverwrites ==
    /\ (last.op = "set" /\ lastSet[last.key].had) =>
          cache[last.key] = [value |-> last.value,
                             expires |-> lastSet[last.key].at + lastSet[last.key].ttl]
    /\ (last.op = "get" /\ last.key \in DOMAIN lastSet /\ lastSet[last.key].had) =>
          LET s == lastSet[last.key]
          IN  /\ (last.at < s.at + s.ttl => last.value = s.value)
              /\ (last.at >= s.at + s.ttl => last.value = None)

\* a get returning the new value at a time the replaced entry had expired
C24_Witness ==
    /\ last.op = "get" /\ last.key \in DOMAIN lastSet
    /\ lastSet[last.key].had
    /\ lastSet[last.key].oldExpires <= last.at
    /\ last.at < lastSet[last.key].at + lastSet[last.key].ttl
    /\ last.value # None
    /\ last.value = lastSet[last.key].value

\* the latest request repeats the request before it, at the same instant
RepeatsPrevious ==
    /\ last.op = "request" /\ prev.op = "request"
    /\ last.url = prev.url /\ last.params = prev.params /\ last.headers = prev.headers
    /\ last.at = prev.at

\* C23: after a request with use_cache=True that the upstream answers with
\* status 200, the cache holds the decoded value under the request's key
\* with an expiry 15 minutes after the store, and the same request made
\* immediately afterwards returns that value.
C23_SuccessIsCached ==
    (/\ RepeatsPrevious
     /\ prev.use_cache /\ prev.calls = 1 /\ prev.kind = "return" /\ prev.up.status = 200
     /\ last.use_cache)
    => /\ LastKey \in DOMAIN last.pre
       /\ last.pre[LastKey] = [value |-> prev.value, expires |-> prev.at + CACHE_EXPIRY_MINUTES]
       /\ last.kind = "return"
       /\ last.value = prev.value

\* the upstream failed the GET of the latest request
RequestFailed ==
    \/ last.up.kind \in {"RequestException", "Exception"}
    \/ last.up.kind = "response" /\ ~(last.up.status >= 200 /\ last.up.status < 300)

\* C25: a request issues at most one upstream GET: one that the upstream
\* fails ends in the error after that single GET, and one whose key has a
\* non-expired entry in the cache issues none.
C25_AtMostOneGet ==
    last.op = "request" =>
        /\ last.calls <= 1
        /\ (last.calls = 1 /\ RequestFailed => last.kind = "raise")
        /\ (/\ last.use_cache
            /\ LastKey \in DOMAIN last.pre
            /\ last.at < last.pre[LastKey].expires) => last.calls = 0

\* C29: a request that ends in failure stores nothing: every entry the cache
\* holds after it was held, unchanged, before it.
C29_FailureStoresNothing ==
    (last.op = "request" /\ last.kind = "raise") =>
        \A k \in DOMAIN cache : k \in DOMAIN last.pre /\ cache[k] = last.pre[k]

\* a cached request failing on a 404 while the cache holds entries
C29_Witness ==
    /\ last.op = "request" /\ last.kind = "raise"
    /\ last.use_cache /\ last.calls = 1
    /\ last.up.status = 404
    /\ last.pre # EmptyCache

\* C30: a request with use_cache=False issues an upstream GET and leaves the
\* cache exactly as it was, whether or not the cache holds an entry, expired
\* or not, for its key.
C30_NoCacheLeavesCacheAlone ==
    (last.op = "request" /\ ~last.use_cache) =>
        /\ last.calls = 1
        /\ cache = last.pre

\* use_cache=False, answered with 200, while a non-expired entry with a
\* value exists for the key
C30_Witness ==
    /\ last.op = "request" /\ ~last.use_cache
    /\ LastKey \in DOMAIN last.pre
    /\ last.at < last.pre[LastKey].expires
    /\ last.pre[LastKey].value # None
    /\ last.up.status = 200 /\ last.kind = "return"
    /\ last.calls = 1

\* the websocket registered under cid before the latest step
SentOnBefore(cid) ==
    IF cid \in DOMAIN last.connsBefore THEN last.connsBefore[cid] ELSE None

\* the websockets whose endpoint is running (accepted and not disconnected)
Open == {s \in Socks : sockCid[s] # None}

\* C27: the registry holds an entry for the client id of every connection
\* from its acceptance until it disconnects, and a disconnect removes only
\* the entry of the connection that disconnected.
C27_RegistryTracksConnections ==
    /\ \A s \in Open : sockCid[s] \in DOMAIN active_connections
    /\ last.op \in {"ws_disconnect", "ws_nonobject"} =>
          \A s \in Open : /\ sockCid[s] \in DOMAIN active_connections
                          /\ (SentOnBefore(sockCid[s]) = s => active_connections[sockCid[s]] = s)

\* C28: the response to a frame received on an open WebSocket connection is
\* sent on that same connection, also when another connection with the same
\* client id has connected or disconnected in the meantime.
C28_AnsweredOnSameConnection ==
    last.op \in {"ws", "ws_malformed"} =>
        /\ last.response.outcome \in {"result", "error"}
        /\ last.deliveredTo = last.sock

\* both threads missed, fetched with status 200, stored and returned
BothFetched ==
    \A t \in Threads : threads[t].pc = "returned" /\ threads[t].up.kind = "response"
                       /\ threads[t].up.status = 200

\* C26: when two threads making the same cached request both miss and both
\* fetch, the cache afterwards holds one entry for the key, which is the
\* entry (value and expiry) one of them wrote, its value being one of the
\* values fetched, and holds the entries of other keys unchanged.
C26_RaceLeavesOneEntry ==
    BothFetched =>
        /\ RaceKey \in DOMAIN cache
        /\ \E t \in Threads : /\ cache[RaceKey] = threads[t].wrote
                              /\ cache[RaceKey].value = threads[t].result
        /\ DOMAIN cache = DOMAIN last.pre \cup {RaceKey}
        /\ \A k \in DOMAIN last.pre \ {RaceKey} : cache[k] = last.pre[k]

\* both threads fetched, each its own value, after the entry of an earlier
\* request expired, and the cache holds what t2 wrote over what t1 wrote
C26_Witness ==
    /\ BothFetched
    /\ RaceKey \in DOMAIN last.pre
    /\ threads["t1"].result = "v1" /\ threads["t2"].result = "v2"
    /\ cache[RaceKey] = threads["t2"].wrote
    /\ threads["t1"].wrote # threads["t2"].wrote

====
